---- MODULE Spec2Model ----
(***************************************************************************)
(* ssb-publish: publish(content, previous, public_key, secret_key,         *)
(* timestamp) builds, signs and hashes the next entry of a Secure          *)
(* Scuttlebutt feed (src/src/lib.rs).                                      *)
(*                                                                         *)
(* Representation.  A byte string holding legacy JSON is a sequence of     *)
(* lexical tokens ("{", a key, a number literal with its decimal digits,   *)
(* a string holding a multikey / multihash / multisig legacy rendering, a  *)
(* value text as Unicode scalar values, "}").  Truncating a byte string    *)
(* truncates the token sequence.  Raw key bytes, digests and signatures    *)
(* are symbolic: Sha256 is collision free and an ed25519 signature records *)
(* what went into it.  u64 values are four 16-bit limbs, least significant *)
(* first, so that 2^64 - 1 and the overflow of line 139 are exact.         *)
(***************************************************************************)
EXTENDS Integers, Sequences, FiniteSets, TLC

VARIABLES call, outcome, steps, overflow_checks, rejects_negative_zero, calls, text,
          hashable

vars == <<call, outcome, steps, overflow_checks, rejects_negative_zero, calls, text, hashable>>

(***************************************************************************)
(* Bounds of the model.                                                    *)
(***************************************************************************)
\* publish calls made one after the other by the caller in one run
MaxCalls == 3
\* length of the strings handed to node_buffer_binary_serializer
MaxTextLen == 3

(***************************************************************************)
(* Fixed-width integers: limbs of 16 bits, least significant first.        *)
(***************************************************************************)
Base == 2^16

U64Limbs == 64 \div 16

\* limbs wide enough for a literal of n decimal digits: 10^n < 2^(4n)
LiteralLimbs(n) == IF n \div 4 + 1 > U64Limbs + 1 THEN n \div 4 + 1 ELSE U64Limbs + 1

ZeroLimbs(n) == [i \in 1..n |-> 0]

U64(n) == <<n>> \o ZeroLimbs(U64Limbs - 1)

U64_MAX == [i \in 1..U64Limbs |-> Base - 1]

\* The one element of a singleton set.  {e(v) : v \in {x}} evaluates x once
\* and binds v to its value, wherever e uses v.
Only(S) == CHOOSE x \in S : TRUE

\* x * m + carry, truncated to the width of x, for m < 2^15 and carry < 2^16.
\* p holds the limb products, s the low half of each plus the high half of
\* the one below; a carry enters limb i when a limb below overflows and every
\* limb between passes it on.
MulAddLimbs(x0, m, carry) ==
    Only({ Only({ Only({ [i \in 1..Len(x) |->
                            (s[i] + (IF \E j \in 1..(i - 1) :
                                            /\ s[j] >= Base
                                            /\ \A h \in (j + 1)..(i - 1) : s[h] >= Base - 1
                                     THEN 1 ELSE 0)) % Base] \o <<>> :
                         s \in {[i \in 1..Len(x) |->
                                    (p[i] % Base)
                                    + (IF i = 1 THEN carry ELSE p[i - 1] \div Base)] \o <<>>} }) :
                  p \in {[i \in 1..Len(x) |-> x[i] * m] \o <<>>} }) :
           x \in {x0} })

\* acc0 followed by the digits ds[lo], ..., ds[hi], halving the run
RECURSIVE DigitsFold(_, _, _, _)
DigitsFold(ds, lo, hi, acc0) ==
    IF lo > hi THEN acc0
    ELSE IF lo = hi THEN MulAddLimbs(acc0, 10, ds[lo])
    ELSE Only({ DigitsFold(ds, (lo + hi) \div 2 + 1, hi, acc) :
                acc \in {DigitsFold(ds, lo, (lo + hi) \div 2, acc0)} })

\* the integer a run of decimal digits denotes
DigitsValue(ds0, acc0) ==
    Only({ DigitsFold(ds, 1, Len(ds), acc0) : ds \in {ds0} })

\* x + 1 on the width of x: the wrapped value and whether it overflowed
RECURSIVE IncLimbs(_, _)
IncLimbs(x0, carry) ==
    Only({ IF x = <<>> THEN [value |-> <<>>, overflow |-> v = 1]
           ELSE Only({ [value |-> <<v % Base>> \o rest.value, overflow |-> rest.overflow] :
                       rest \in {IncLimbs(Tail(x), v \div Base)} }) :
           x \in {x0}, v \in {IF x0 = <<>> THEN carry ELSE Head(x0) + carry} })

\* long division by 10, most significant limb first: quotient and remainder
RECURSIVE DivMod10(_, _)
DivMod10(x0, rem) ==
    Only({ IF x = <<>> THEN [q |-> <<>>, r |-> v]
           ELSE Only({ [q |-> rest.q \o <<v \div 10>>, r |-> rest.r] :
                       rest \in {DivMod10(SubSeq(x, 1, Len(x) - 1), v % 10)} }) :
           x \in {x0}, v \in {IF x0 = <<>> THEN rem ELSE rem * Base + x0[Len(x0)]} })

IsZeroLimbs(x) == \A i \in 1..Len(x) : x[i] = 0

\* u64::to_string: the decimal digits of x, most significant first
RECURSIVE ToDigits(_)
ToDigits(x) ==
    Only({ IF IsZeroLimbs(d.q) THEN <<d.r>> ELSE ToDigits(d.q) \o <<d.r>> :
           d \in {DivMod10(x, 0)} })

(***************************************************************************)
(* Bits, least significant first, for the rounding of a literal to f64.    *)
(***************************************************************************)
ToBits(x0) ==
    Only({ [i \in 1..(16 * Len(x)) |-> (x[((i - 1) \div 16) + 1] \div 2^((i - 1) % 16)) % 2] :
           x \in {x0} })

\* the number whose bits are b[i], ..., b[j]
RECURSIVE BitsValue(_, _, _)
BitsValue(b, i, j) == IF i > j THEN 0 ELSE b[i] + 2 * BitsValue(b, i + 1, j)

FromBits(b0, n) ==
    Only({ [j \in 1..n |-> BitsValue(b, 16 * (j - 1) + 1, 16 * j)] : b \in {b0} })

\* the position of the highest set bit, 0 when there is none
BitLen(b0) ==
    Only({ IF \A i \in 1..Len(b) : b[i] = 0 THEN 0
           ELSE CHOOSE i \in 1..Len(b) : b[i] = 1 /\ \A j \in (i + 1)..Len(b) : b[j] = 0 :
           b \in {b0} })

\* the position of the lowest clear bit at or above i, Len(b) + 1 when none
LowestClear(b, i) ==
    CHOOSE z \in i..(Len(b) + 1) :
        (z = Len(b) + 1 \/ b[z] = 0) /\ \A j \in i..(z - 1) : b[j] = 1

\* b + 1, one bit longer than b: the carry runs up to the lowest clear bit
IncBits(b0) ==
    Only({ [i \in 1..(Len(b) + 1) |->
               IF i < z THEN 0 ELSE IF i = z THEN 1 ELSE IF i > Len(b) THEN 0 ELSE b[i]] :
           b \in {b0}, z \in {LowestClear(b0, 1)} })

F64_MANTISSA_DIGITS == 53

\* x * 2^k, truncated to the width of x: whole limbs first, then the rest
\* of the shift in two multiplications
ShiftLeft(x0, k) ==
    Only({ MulAddLimbs(
               MulAddLimbs([i \in 1..Len(x) |-> IF i <= k \div 16 THEN 0 ELSE x[i - k \div 16]],
                           2^((k % 16) \div 2), 0),
               2^((k % 16) - (k % 16) \div 2), 0) :
           x \in {x0} })

\* -1, 0 or 1 as a < b, a = b or a > b, for limbs of one width
CompareLimbs(a0, b0) ==
    Only({ IF a = b THEN 0
           ELSE LET i == CHOOSE j \in 1..Len(a) :
                            a[j] # b[j] /\ \A h \in (j + 1)..Len(a) : a[h] = b[h]
                IN  IF a[i] < b[i] THEN -1 ELSE 1 :
           a \in {a0}, b \in {b0} })

\* 10^n - F, for the fraction F / 10^n with the n digits frac
OneMinusFraction(frac, w) ==
    MulAddLimbs(DigitsValue([i \in 1..Len(frac) |-> 9 - frac[i]], ZeroLimbs(w)), 1, 1)

\* The fraction 0.frac, k of whose bits an f64 keeps, rounds up to 1: it is
\* above 1 - 2^-(k+1), or it is that tie and the mantissa below it is odd.
FractionRoundsUp(frac, k, odd) ==
    Only({ c < 0 \/ (c = 0 /\ odd) :
           c \in {CompareLimbs(
                     ShiftLeft(OneMinusFraction(frac, (4 * Len(frac) + k + 1) \div 16 + 2),
                               k + 1),
                     DigitsValue(<<1>> \o [i \in 1..Len(frac) |-> 0],
                                 ZeroLimbs((4 * Len(frac) + k + 1) \div 16 + 2)))} })

\* The integer part of the f64 nearest (ties to even) to the literal whose
\* integer part has the bits b and whose fraction has the digits frac.  One
\* limb longer than b.  An integer part of more than 53 bits is rounded at
\* bit p - 53, the fraction counting as sticky; otherwise the f64 keeps
\* 53 - p bits of the fraction, which may round up into the integer part.
RoundToF64(b0, frac) ==
    Only({ IF p <= F64_MANTISSA_DIGITS
           THEN (IF FractionRoundsUp(frac, F64_MANTISSA_DIGITS - p,
                                     p < F64_MANTISSA_DIGITS \/ b[1] = 1)
                 THEN IncBits(b) \o [i \in 1..15 |-> 0]
                 ELSE b \o [i \in 1..16 |-> 0])
           ELSE LET s     == p - F64_MANTISSA_DIGITS
                    below == (\E i \in 1..Len(frac) : frac[i] # 0)
                             \/ \E i \in 1..(s - 1) : b[i] = 1
                    up    == b[s] = 1 /\ (below \/ b[s + 1] = 1)
                IN  [i \in 1..s |-> 0]
                    \o (IF up THEN IncBits(SubSeq(b, s + 1, p)) ELSE SubSeq(b, s + 1, p) \o <<0>>)
                    \o [i \in 1..(Len(b) + 15 - p) |-> 0] :
           b \in {b0}, p \in {BitLen(b0)} })

\* f64::MIN_EXP
F64_MIN_EXP == -1021

\* f64::MAX_EXP
F64_MAX_EXP == 1024

\* The f64 nearest to the literal 0.frac is zero: the literal is at most
\* 2^-1075, half the least positive f64 (the tie goes to the even one, zero).
FractionRoundsToZero(frac) ==
    Only({ CompareLimbs(ShiftLeft(DigitsValue(ds, ZeroLimbs(w)), k),
                        DigitsValue(<<1>> \o [i \in 1..Len(ds) |-> 0], ZeroLimbs(w))) <= 0 :
           ds \in {frac},
           k \in {F64_MANTISSA_DIGITS + 1 - F64_MIN_EXP},
           w \in {(4 * Len(frac) + F64_MANTISSA_DIGITS + 1 - F64_MIN_EXP) \div 16 + 2} })

(***************************************************************************)
(* Option<T>: None, or Some(x).                                            *)
(***************************************************************************)
None == <<>>

Some(x) == <<x>>

(***************************************************************************)
(* node_buffer_binary_serializer, lines 179-183.  A &str is its sequence   *)
(* of Unicode scalar values.                                               *)
(***************************************************************************)
\* char::encode_utf16: one code unit, or a surrogate pair above the BMP
EncodeUtf16Char(c) ==
    IF c < 65536 THEN <<c>>
    ELSE <<55296 + ((c - 65536) \div 1024), 56320 + ((c - 65536) % 1024)>>

\* str::encode_utf16
RECURSIVE encode_utf16(_)
encode_utf16(s) ==
    IF s = <<>> THEN <<>> ELSE EncodeUtf16Char(Head(s)) \o encode_utf16(Tail(s))

\* bitwise and of two naturals
RECURSIVE BitAnd(_, _)
BitAnd(a, b) ==
    IF a = 0 \/ b = 0 THEN 0
    ELSE (a % 2) * (b % 2) + 2 * BitAnd(a \div 2, b \div 2)

\* LowByte gone wrong: the high byte of the code unit is kept
LowByteHigh(word) == word \div 256

\* (word & 0xFF) as u8
LowByte(word) == BitAnd(word, 255) % 256

node_buffer_binary_serializer(s) ==
    LET units == encode_utf16(s)
    IN  [i \in 1..Len(units) |-> LowByte(units[i])]

(***************************************************************************)
(* Keys, signatures, digests and their multiformats wrappers.              *)
(***************************************************************************)
\* 32-byte strings that decompress to a curve point, and one that does not
ValidPublicKeyBytes == <<"pkA", "pkB">>

PublicKeyBytes == ValidPublicKeyBytes \o <<"pkNotOnCurve">>

SECRET_KEY_LENGTH == 32

\* byte strings offered as secret keys: two seeds, and one a byte short
SecretKeyBytes ==
    << [seed |-> "a", len |-> SECRET_KEY_LENGTH],
       [seed |-> "b", len |-> SECRET_KEY_LENGTH],
       [seed |-> "a", len |-> SECRET_KEY_LENGTH - 1] >>

\* the public key that belongs to a seed
PublicOf(seed) == IF seed = "a" THEN "pkA" ELSE "pkB"

\* PublicKey::from_bytes succeeds
PublicKey_from_bytes_ok(bytes) == \E i \in 1..Len(ValidPublicKeyBytes) : ValidPublicKeyBytes[i] = bytes

\* SecretKey::from_bytes succeeds
SecretKey_from_bytes_ok(bytes) == bytes.len = SECRET_KEY_LENGTH

\* Keypair::sign: the scalar comes from the secret key, and the public key
\* stored in the keypair is hashed into the challenge
Sign(keypair, message) ==
    [secret |-> keypair.secret.seed, public |-> keypair.public, message |-> message]

\* ed25519 verification of a signature over message under public_key
Verify(public_key, message, signature) ==
    /\ signature.message = message
    /\ signature.public = public_key
    /\ PublicOf(signature.secret) = public_key

Multikey_from_ed25519(bytes) == [alg |-> "ed25519", key |-> bytes]

Multisig_from_ed25519(bytes) == [alg |-> "ed25519", sig |-> bytes]

Sha256_digest(bytes) == [sha256 |-> bytes]

Multihash_from_sha256(hash, target) == [alg |-> "sha256", digest |-> hash, target |-> target]

(***************************************************************************)
(* f64 values a caller can pass as timestamp.                              *)
(***************************************************************************)
Finite(neg, int, frac) == [class |-> "finite", neg |-> neg, int |-> int, frac |-> frac]

NaN == [class |-> "nan", neg |-> FALSE, int |-> <<>>, frac |-> <<>>]

Infinity == [class |-> "inf", neg |-> FALSE, int |-> <<>>, frac |-> <<>>]

IsZeroDigits(ds) == \A i \in 1..Len(ds) : ds[i] = 0

\* LegacyF64::from_f64: None for NaN, the infinities and negative zero
LegacyF64_from_f64(f) ==
    IF f.class # "finite" THEN None
    ELSE IF IsZeroDigits(f.int) /\ IsZeroDigits(f.frac) /\ f.neg THEN None
    ELSE Some(f)

(***************************************************************************)
(* Tokens of the legacy JSON encoding.                                     *)
(***************************************************************************)
Open == [t |-> "{"]

Close == [t |-> "}"]

Key(name) == [t |-> "key", name |-> name]

Null == [t |-> "null"]

\* a number literal: sign, digits of the integer part, digits of the
\* fraction, exponent
NumExp(neg, int, frac, exp) ==
    [t |-> "number", neg |-> neg, int |-> int, frac |-> frac, exp |-> exp]

\* a number literal without an exponent
Num(neg, int, frac) == NumExp(neg, int, frac, 0)

\* "@<base64 key>.ed25519"
MultikeyStr(k) == [t |-> "multikey", mk |-> k]

\* "%<base64 digest>.sha256"
MultihashStr(h) == [t |-> "multihash", mh |-> h]

\* "<base64 signature>.sig.ed25519"
MultisigStr(s) == [t |-> "multisig", ms |-> s]

\* any other string, named by its text
Str(name) == [t |-> "string", str |-> name]

\* a serialized content value, with the characters it holds
Val(chars) == [t |-> "value", chars |-> chars]

\* bytes that are no JSON at all
Garbage == [t |-> "garbage"]

ValueTags == {"null", "number", "multikey", "multihash", "multisig", "string", "value"}

(***************************************************************************)
(* ssb_legacy_msg::json::to_legacy_vec(&new_message, false), lines 158 and *)
(* 167: the signing encoding of a Message.                                 *)
(***************************************************************************)
\* whether the n-th serialization of the message within one call succeeds
to_legacy_vec_ok(msg, n) == msg.content.serializes[n]

to_legacy_vec(msg) ==
    <<Open,
      Key("previous"), IF msg.previous = None THEN Null ELSE MultihashStr(msg.previous[1]),
      Key("author"), MultikeyStr(msg.author),
      Key("sequence"), Num(FALSE, ToDigits(msg.sequence), <<>>),
      Key("timestamp"), Num(msg.timestamp.neg, msg.timestamp.int, msg.timestamp.frac),
      Key("hash"), Str("sha256"),
      Key("content"), Val(msg.content.chars)>>
    \o (IF msg.signature = None THEN <<>>
        ELSE <<Key("signature"), MultisigStr(msg.signature[1])>>)
    \o <<Close>>

(***************************************************************************)
(* ssb_legacy_msg_data::json::from_slice::<SsbPreviousMessageValue>, line  *)
(* 129, for the struct of lines 184-190.                                   *)
(***************************************************************************)
\* one JSON object of key, value pairs and nothing after it
IsJsonObject(m) ==
    /\ Len(m) >= 2
    /\ Len(m) % 2 = 0
    /\ m[1].t = "{"
    /\ m[Len(m)].t = "}"
    /\ \A i \in 2..(Len(m) - 1) :
          IF i % 2 = 0 THEN m[i].t = "key" ELSE m[i].t \in ValueTags

\* the positions of the values stored under a key
ValuesOf(m, name) == {i \in 3..(Len(m) - 1) : i % 2 = 1 /\ m[i - 1].name = name}

\* the digits of a literal with its exponent folded into the place of the point
PointShifted(tok) ==
    IF tok.exp >= 0
    THEN [int  |-> tok.int \o [i \in 1..tok.exp |->
                                  IF i <= Len(tok.frac) THEN tok.frac[i] ELSE 0],
          frac |-> SubSeq(tok.frac, tok.exp + 1, Len(tok.frac))]
    ELSE [int  |-> IF -tok.exp >= Len(tok.int) THEN <<0>>
                   ELSE SubSeq(tok.int, 1, Len(tok.int) + tok.exp),
          frac |-> [i \in 1..(-tok.exp - Len(tok.int)) |-> 0]
                   \o (IF -tok.exp >= Len(tok.int) THEN tok.int
                       ELSE SubSeq(tok.int, Len(tok.int) + tok.exp + 1, Len(tok.int)))
                   \o tok.frac]

\* the f64 the literal is parsed to is zero, of either sign
ParsesToZero(d) == IsZeroDigits(d.int) /\ FractionRoundsToZero(d.frac)

\* the f64 the literal is parsed to is an infinity: rounded, it reaches 2^1024
ParsesToInfinity(d) ==
    /\ 4 * Len(d.int) > F64_MAX_EXP
    /\ BitLen(RoundToF64(ToBits(DigitsValue(d.int, ZeroLimbs(LiteralLimbs(Len(d.int))))),
                         d.frac)) > F64_MAX_EXP

\* deserialize_u64: the literal is parsed as the nearest f64, checked against
\* [0, u64::MAX as f64] and cast to u64 (truncating, saturating).  A literal
\* parsed to -0.0 passes that check; strict says whether the parser has
\* refused it before.
DeserializeU64(tok, strict) ==
    Only({ IF d.neg /\ ~z THEN None
           ELSE IF d.neg /\ z /\ strict THEN None
           ELSE Only({ Only({ IF BitLen(f) > 65 THEN None
                              ELSE IF BitLen(f) = 65 /\ \E i \in 1..64 : f[i] = 1 THEN None
                              ELSE IF BitLen(f) = 65 THEN Some(U64_MAX)
                              ELSE Some(FromBits(f, U64Limbs)) :
                              f \in {RoundToF64(ToBits(int), d.frac)} }) :
                       int \in {DigitsValue(d.int, ZeroLimbs(LiteralLimbs(Len(d.int))))} }) :
           d \in {[neg |-> tok.neg] @@ PointShifted(tok)},
           z \in {tok.neg /\ ParsesToZero(PointShifted(tok))} })

\* the LegacyF64 of a literal: None when the f64 it is parsed to is an
\* infinity or negative zero
DeserializeLegacyF64(tok) ==
    Only({ IF ParsesToInfinity(d) THEN LegacyF64_from_f64(Infinity)
           ELSE IF tok.neg /\ ParsesToZero(d) THEN LegacyF64_from_f64(Finite(TRUE, <<0>>, <<>>))
           ELSE LegacyF64_from_f64(Finite(tok.neg, d.int, d.frac)) :
           d \in {PointShifted(tok)} })

from_slice(m, strict) ==
    IF ~IsJsonObject(m) THEN None
    ELSE LET P == ValuesOf(m, "previous")
             A == ValuesOf(m, "author")
             S == ValuesOf(m, "sequence")
             T == ValuesOf(m, "timestamp")
             one(X) == CHOOSE i \in X : TRUE
         IN  IF \/ Cardinality(P) > 1
                \/ Cardinality(A) # 1
                \/ Cardinality(S) # 1
                \/ Cardinality(T) # 1
             THEN None
             ELSE IF \/ m[one(A)].t # "multikey"
                     \/ m[one(S)].t # "number"
                     \/ m[one(T)].t # "number"
                     \/ (P # {} /\ m[one(P)].t \notin {"null", "multihash"})
             THEN None
             ELSE LET sequence == DeserializeU64(m[one(S)], strict)
                      timestamp == DeserializeLegacyF64(m[one(T)])
                  IN  IF sequence = None \/ timestamp = None THEN None
                      ELSE Some([previous  |-> IF P = {} \/ m[one(P)].t = "null" THEN None
                                               ELSE Some(m[one(P)].mh),
                                 author    |-> m[one(A)].mk,
                                 sequence  |-> sequence[1],
                                 timestamp |-> timestamp[1]])

(***************************************************************************)
(* get_multihash_from_message_bytes, lines 174-178.                        *)
(***************************************************************************)
\* std::str::from_utf8 succeeds
from_utf8_ok(bytes) == \A i \in 1..Len(bytes) : bytes[i].t # "garbage"

\* line 175: the serializer over the text of a message; every token but a
\* value is ASCII, which the serializer leaves as it is
HashableBytes(bytes) ==
    [i \in 1..Len(bytes) |->
        IF bytes[i].t = "value" THEN Val(node_buffer_binary_serializer(bytes[i].chars))
        ELSE bytes[i]]

get_multihash_from_message_bytes(bytes) ==
    Multihash_from_sha256(Sha256_digest(HashableBytes(bytes)), "Message")

(***************************************************************************)
(* publish, lines 104-172.                                                 *)
(***************************************************************************)
Ok(bytes, key, ran) ==
    [result |-> [tag |-> "Ok", bytes |-> bytes, key |-> key], steps |-> ran]

Err(error, message, ran) ==
    [result |-> [tag |-> "Err", error |-> error, message |-> message], steps |-> ran]

Panic(line, ran) ==
    [result |-> [tag |-> "Panic", line |-> line], steps |-> ran]

\* InvalidPreviousMessage gone wrong: the offending bytes are dropped
InvalidPreviousMessageEmpty(message, ran) == Err("InvalidPreviousMessage", Some(<<>>), ran)

\* lines 129-131
InvalidPreviousMessage(message, ran) == Err("InvalidPreviousMessage", Some(message), ran)

\* FirstLink gone wrong: sequences counted from 0
FirstLinkZero == [new_seq |-> U64(0), previous_key |-> None, previous_author |-> None]

\* line 140: the link of a feed's first entry
FirstLink == [new_seq |-> U64(1), previous_key |-> None, previous_author |-> None]

\* line 139: the link to a decoded previous entry; the sum is the wrapped one
NextLink(msg, key) ==
    [new_seq |-> IncLimbs(msg.sequence, 1).value, previous_key |-> Some(key),
     previous_author |-> Some(msg.author)]

\* AuthorMatches gone wrong: the comparison is left out
AuthorMatchesAlways(previous_author, author) == TRUE

\* line 145
AuthorMatches(previous_author, author) == previous_author = author

\* KeyInput gone wrong: the identifier is that of the bytes that were signed
KeyInputSignable(signable_bytes, published_bytes) == signable_bytes

\* line 169: the bytes the returned identifier is computed from
KeyInput(signable_bytes, published_bytes) == published_bytes

StepNames ==
    <<"PublicKey::from_bytes", "SecretKey::from_bytes", "from_slice", "previous_key",
      "sequence + 1", "ensure author", "LegacyF64::from_f64", "to_legacy_vec signable",
      "sign", "to_legacy_vec published", "key">>

\* the steps of publish up to and including the n-th
Ran(n) == SubSeq(StepNames, 1, n)

\* the steps run when no previous entry is given: lines 127-134 and the
\* closure of line 139 are skipped
RanFrom(n, previous_msg_value_bytes) ==
    IF previous_msg_value_bytes = None
    THEN SelectSeq(Ran(n), LAMBDA x : x \notin {"from_slice", "previous_key", "sequence + 1", "ensure author"})
    ELSE Ran(n)

publish(content, previous_msg_value_bytes, public_key_bytes, secret_key_bytes, timestamp, checks, strict) ==
    LET ran(n) == RanFrom(n, previous_msg_value_bytes)
    IN
    IF ~PublicKey_from_bytes_ok(public_key_bytes) THEN Err("InvalidPublicKey", None, ran(1))
    ELSE IF ~SecretKey_from_bytes_ok(secret_key_bytes) THEN Err("InvalidSecretKey", None, ran(2))
    ELSE
    LET keypair == [secret |-> secret_key_bytes, public |-> public_key_bytes]
        author  == Multikey_from_ed25519(public_key_bytes)
        given   == previous_msg_value_bytes # None
        message == previous_msg_value_bytes[1]
    IN
    \* lines 127-131: the previous entry is decoded once, when there is one
    Only({
    IF given /\ decoded_previous = None THEN InvalidPreviousMessage(message, ran(3))
    ELSE IF given /\ ~from_utf8_ok(message) THEN Panic(175, ran(4))
    ELSE IF given /\ checks /\ IncLimbs(decoded_previous[1].sequence, 1).overflow
         THEN Panic(139, ran(5))
    ELSE
    LET link == IF given
                THEN NextLink(decoded_previous[1], get_multihash_from_message_bytes(message))
                ELSE FirstLink
    IN
    IF link.previous_author # None /\ ~AuthorMatches(link.previous_author[1], author)
    THEN Err("PreviousMessageAuthorIsIncorrect", None, ran(6))
    ELSE IF LegacyF64_from_f64(timestamp) = None THEN Panic(154, ran(7))
    ELSE
    LET new_message == [content   |-> content,
                        author    |-> author,
                        previous  |-> link.previous_key,
                        sequence  |-> link.new_seq,
                        timestamp |-> LegacyF64_from_f64(timestamp)[1],
                        signature |-> None]
    IN
    IF ~to_legacy_vec_ok(new_message, 1) THEN Err("LegacyJsonEncodeFailed", None, ran(8))
    ELSE
    LET signable_bytes  == to_legacy_vec(new_message)
        signature       == Multisig_from_ed25519(Sign(keypair, signable_bytes))
        signed_message  == [new_message EXCEPT !.signature = Some(signature)]
        published_bytes == to_legacy_vec(signed_message)
        key == get_multihash_from_message_bytes(KeyInput(signable_bytes, published_bytes))
    IN  IF ~to_legacy_vec_ok(signed_message, 2) THEN Panic(167, ran(10))
        ELSE Ok(published_bytes, key, ran(11)) :
    decoded_previous \in {IF given THEN from_slice(message, strict) ELSE None} })

(***************************************************************************)
(* The inputs of the model.                                                *)
(***************************************************************************)
\* Content<T> values: one the codec encodes (its text holds a character
\* outside Latin-1), one whose Serialize fails, one whose Serialize fails
\* when it is called a second time
Contents ==
    << [chars |-> <<65, 9786>>, serializes |-> <<TRUE, TRUE>>],
       [chars |-> <<>>, serializes |-> <<FALSE, FALSE>>],
       [chars |-> <<65>>, serializes |-> <<TRUE, FALSE>>] >>

\* 1571140551543.5, NaN, +inf, -0.0
Timestamps ==
    << Finite(FALSE, <<1, 5, 7, 1, 1, 4, 0, 5, 5, 1, 5, 4, 3>>, <<5>>),
       NaN,
       Infinity,
       Finite(TRUE, <<0>>, <<>>) >>

\* 18446744073709551615 = 2^64 - 1
U64MaxDigits == <<1, 8, 4, 4, 6, 7, 4, 4, 0, 7, 3, 7, 0, 9, 5, 5, 1, 6, 1, 5>>

\* 18446744073709555712 = 2^64 + 4096, the next f64 above 2^64
AboveU64Digits == <<1, 8, 4, 4, 6, 7, 4, 4, 0, 7, 3, 7, 0, 9, 5, 5, 5, 7, 1, 2>>

\* the encoding of an entry written by someone else: author and sequence literal
EntryOf(author, sequence) ==
    <<Open,
      Key("previous"), Null,
      Key("author"), author,
      Key("sequence"), sequence,
      Key("timestamp"), Num(FALSE, <<0>>, <<>>),
      Key("hash"), Str("sha256"),
      Key("content"), Val(<<65>>),
      Key("signature"), MultisigStr(Multisig_from_ed25519(
          [secret |-> "b", public |-> "pkB", message |-> <<>>])),
      Close>>

KeyA == MultikeyStr(Multikey_from_ed25519("pkA"))

KeyB == MultikeyStr(Multikey_from_ed25519("pkB"))

\* byte strings a caller can pass as the previous entry, besides the bytes
\* publish returned
PreviousInputs ==
    << EntryOf(KeyA, Num(FALSE, <<1>>, <<>>)),
       EntryOf(KeyB, Num(FALSE, <<4, 1>>, <<>>)),
       EntryOf(KeyA, Num(FALSE, U64MaxDigits, <<>>)),
       EntryOf(KeyB, Num(FALSE, U64MaxDigits, <<>>)),
       EntryOf(KeyA, Num(FALSE, AboveU64Digits, <<>>)),
       \* truncated JSON
       SubSeq(EntryOf(KeyA, Num(FALSE, <<1>>, <<>>)), 1, 6),
       \* no bytes
       <<>>,
       \* only the fields of SsbPreviousMessageValue, the sequence 2.5
       <<Open, Key("author"), KeyA, Key("sequence"), Num(FALSE, <<2>>, <<5>>),
         Key("timestamp"), Num(FALSE, <<7>>, <<>>), Close>>,
       \* sequences the f64 rounds up: 0.99999999999999999999 to 1, and
       \* 9007199254740991.5 = 2^53 - 1/2 to 2^53
       EntryOf(KeyA, Num(FALSE, <<0>>, [i \in 1..20 |-> 9])),
       EntryOf(KeyB, Num(FALSE, <<9, 0, 0, 7, 1, 9, 9, 2, 5, 4, 7, 4, 0, 9, 9, 1>>, <<5>>)),
       \* a negative sequence, and the sequences -0 and 1e3
       EntryOf(KeyA, Num(TRUE, <<1>>, <<>>)),
       EntryOf(KeyA, Num(TRUE, <<0>>, <<>>)),
       EntryOf(KeyA, NumExp(FALSE, <<1>>, <<>>, 3)),
       \* bytes after the object that are no JSON
       EntryOf(KeyA, Num(FALSE, <<1>>, <<>>)) \o <<Garbage>>,
       \* an author that is no multikey, a sequence that is no number
       EntryOf(Str("alice"), Num(FALSE, <<1>>, <<>>)),
       EntryOf(KeyB, Str("one")) >>

\* strings, as Unicode scalar values: A, e acute, U+0100, U+263A, U+1F600
Chars == {65, 233, 256, 9786, 128512}

Texts == UNION {[1..n -> Chars] : n \in 0..MaxTextLen}

(***************************************************************************)
(* The caller: a run starts with a call that has no previous entry or one  *)
(* whose previous entry comes from elsewhere, and goes on with calls whose *)
(* previous entry is the bytes the last call returned (tests::it_works,    *)
(* lines 238-267).                                                         *)
(***************************************************************************)
NotCalled == [tag |-> "NotCalled"]

Init ==
    /\ call = NotCalled
    /\ outcome = NotCalled
    /\ steps = <<>>
    /\ overflow_checks \in BOOLEAN
    /\ rejects_negative_zero \in BOOLEAN
    /\ calls = 0
    /\ text = <<>>
    /\ hashable = None

Call(content, previous_msg_value_bytes, public_key_bytes, secret_key_bytes, timestamp) ==
    LET r == publish(content, previous_msg_value_bytes, public_key_bytes,
                     secret_key_bytes, timestamp, overflow_checks, rejects_negative_zero)
    IN  /\ calls < MaxCalls
        /\ call' = [tag |-> "Called",
                    content |-> content,
                    previous_msg_value_bytes |-> previous_msg_value_bytes,
                    public_key_bytes |-> public_key_bytes,
                    secret_key_bytes |-> secret_key_bytes,
                    timestamp |-> timestamp]
        /\ outcome' = r.result
        /\ steps' = r.steps
        /\ calls' = calls + 1
        /\ UNCHANGED <<overflow_checks, rejects_negative_zero, text, hashable>>

PublishFirst ==
    /\ calls = 0
    /\ \E c \in 1..Len(Contents), p \in 1..Len(PublicKeyBytes),
          s \in 1..Len(SecretKeyBytes), t \in 1..Len(Timestamps) :
           Call(Contents[c], None, PublicKeyBytes[p], SecretKeyBytes[s], Timestamps[t])

PublishNext ==
    /\ outcome.tag = "Ok"
    /\ \E c \in 1..Len(Contents), p \in 1..Len(PublicKeyBytes),
          s \in 1..Len(SecretKeyBytes), t \in 1..Len(Timestamps) :
           Call(Contents[c], Some(outcome.bytes), PublicKeyBytes[p], SecretKeyBytes[s],
                Timestamps[t])

PublishOnto ==
    /\ calls = 0
    /\ \E i \in 1..Len(PreviousInputs), c \in 1..Len(Contents), p \in 1..Len(PublicKeyBytes),
          s \in 1..Len(SecretKeyBytes), t \in 1..Len(Timestamps) :
           Call(Contents[c], Some(PreviousInputs[i]), PublicKeyBytes[p], SecretKeyBytes[s],
                Timestamps[t])

Next == PublishFirst \/ PublishNext \/ PublishOnto

Spec == Init /\ [][Next]_vars

(***************************************************************************)
(* node_buffer_binary_serializer on its own.                               *)
(***************************************************************************)
InitTranscode ==
    /\ call = NotCalled
    /\ outcome = NotCalled
    /\ steps = <<>>
    /\ overflow_checks = TRUE
    /\ rejects_negative_zero = TRUE
    /\ calls = 0
    /\ text \in Texts
    /\ hashable = None

Transcode ==
    /\ hashable = None
    /\ hashable' = Some(node_buffer_binary_serializer(text))
    /\ UNCHANGED <<call, outcome, steps, overflow_checks, rejects_negative_zero, calls, text>>

NextTranscode == Transcode

SpecTranscode == InitTranscode /\ [][NextTranscode]_vars

(***************************************************************************)
(* What a consumer of the returned bytes reads from them.                  *)
(***************************************************************************)
\* the bytes without the signature entry: the signing encoding
WithoutSignature(bytes) ==
    SelectSeq([i \in 1..Len(bytes) |-> [at |-> i, tok |-> bytes[i]]],
              LAMBDA e : ~(\/ (e.tok.t = "key" /\ e.tok.name = "signature")
                           \/ (e.at > 1 /\ bytes[e.at - 1].t = "key"
                               /\ bytes[e.at - 1].name = "signature")))

SignableOf(bytes) ==
    LET kept == WithoutSignature(bytes) IN [i \in 1..Len(kept) |-> kept[i].tok]

\* ssb_verify_signatures::verify_message_value, as tests::it_works uses it
\* (lines 248 and 270): the signature entry verifies under the author key over
\* the encoding without it
verify_message_value(bytes) ==
    /\ from_slice(bytes, rejects_negative_zero) # None
    /\ \E i \in 2..Len(bytes) :
          /\ bytes[i - 1].t = "key"
          /\ bytes[i - 1].name = "signature"
          /\ bytes[i].t = "multisig"
          /\ Verify(from_slice(bytes, rejects_negative_zero)[1].author.key, SignableOf(bytes),
                    bytes[i].ms.sig)

Called == call.tag = "Called"

Succeeded == outcome.tag = "Ok"

PreviousGiven == Called /\ call.previous_msg_value_bytes # None

PreviousBytes == call.previous_msg_value_bytes[1]

PreviousDecodes == PreviousGiven /\ from_slice(PreviousBytes, rejects_negative_zero) # None

\* the previous entry as publish decoded it
Previous == from_slice(PreviousBytes, rejects_negative_zero)[1]

\* the integer the sequence entry of the bytes spells
SequenceSpelled(bytes) ==
    DigitsValue(bytes[CHOOSE i \in ValuesOf(bytes, "sequence") : TRUE].int, ZeroLimbs(U64Limbs))

\* the entry publish returned, read back from its bytes, with the sequence
\* as the bytes spell it
Produced ==
    [from_slice(outcome.bytes, rejects_negative_zero)[1]
        EXCEPT !.sequence = SequenceSpelled(outcome.bytes)]

KeysAccepted ==
    /\ Called
    /\ PublicKey_from_bytes_ok(call.public_key_bytes)
    /\ SecretKey_from_bytes_ok(call.secret_key_bytes)

CallerKey == [alg |-> "ed25519", key |-> call.public_key_bytes]

\* b = a + 1 as integers, for u64 values a and b
IsSuccessor(a, b) ==
    \E k \in 1..Len(a) :
        /\ \A i \in 1..(k - 1) : a[i] = Base - 1 /\ b[i] = 0
        /\ b[k] = a[k] + 1
        /\ a[k] < Base - 1
        /\ \A i \in (k + 1)..Len(a) : b[i] = a[i]

\* the message identifier of bytes: transcode, digest, tag as a message
IdentifierOf(bytes) ==
    [alg    |-> "sha256",
     digest |-> [sha256 |-> [i \in 1..Len(bytes) |->
                    IF bytes[i].t = "value"
                    THEN [t |-> "value",
                          chars |-> [j \in 1..Len(encode_utf16(bytes[i].chars)) |->
                                        encode_utf16(bytes[i].chars)[j] % 256]]
                    ELSE bytes[i]]],
     target |-> "Message"]

IsError(name) == outcome.tag = "Err" /\ outcome.error = name

(***************************************************************************)
(* C1.  Chaining: a successful publish onto a previous entry that decodes  *)
(* with sequence n returns an entry with sequence n + 1 whose previous is  *)
(* the message identifier of the previous entry's bytes.                   *)
(***************************************************************************)
C1_Chaining ==
    (Succeeded /\ PreviousGiven) =>
        /\ IsSuccessor(Previous.sequence, Produced.sequence)
        /\ Produced.previous = Some(IdentifierOf(PreviousBytes))

(***************************************************************************)
(* C2.  First entry: a successful publish with no previous entry returns   *)
(* sequence 1, previous null and the author made of the caller's public    *)
(* key bytes; the author of every returned entry is made of those bytes.   *)
(***************************************************************************)
C2_FirstEntry ==
    Succeeded =>
        /\ Produced.author = CallerKey
        /\ ~PreviousGiven => /\ Produced.sequence = <<1, 0, 0, 0>>
                             /\ Produced.previous = None

C2_Witness == Succeeded /\ ~PreviousGiven /\ call.public_key_bytes = "pkB"

(***************************************************************************)
(* C3, as stated.  Whenever a previous entry is given that decodes and     *)
(* whose author is not the caller's key, publish fails with                *)
(* PreviousMessageAuthorIsIncorrect.  Stated here for the previous entries *)
(* whose sequence is below u64::MAX, where line 139 cannot overflow: the   *)
(* statement fails there already.                                          *)
(***************************************************************************)
C3_Original ==
    (PreviousDecodes /\ Previous.author # CallerKey /\ Previous.sequence # U64_MAX) =>
        IsError("PreviousMessageAuthorIsIncorrect")

(***************************************************************************)
(* C3, amended.  Whenever a previous entry is given that decodes and whose *)
(* author is not the caller's key, publish returns no entry; when both key *)
(* byte strings are accepted it fails with                                 *)
(* PreviousMessageAuthorIsIncorrect, except that a previous sequence of    *)
(* u64::MAX in a build with overflow checks panics at line 139 first.      *)
(***************************************************************************)
C3_AuthorContinuity ==
    (PreviousDecodes /\ Previous.author # CallerKey) =>
        /\ ~Succeeded
        /\ KeysAccepted =>
              IF overflow_checks /\ Previous.sequence = U64_MAX
              THEN outcome = [tag |-> "Panic", line |-> 139]
              ELSE outcome = [tag |-> "Err", error |-> "PreviousMessageAuthorIsIncorrect",
                              message |-> None]

C3_Witness ==
    /\ PreviousDecodes
    /\ Previous.author # CallerKey
    /\ KeysAccepted
    /\ IsError("PreviousMessageAuthorIsIncorrect")
    /\ calls > 1

(***************************************************************************)
(* C4.  Signature validity: the signature of every returned entry verifies *)
(* under its author key over the encoding without the signature.           *)
(***************************************************************************)
C4_SignatureValid == Succeeded => verify_message_value(outcome.bytes)

(***************************************************************************)
(* C5, as stated.  Whenever the previous bytes do not parse, publish       *)
(* returns InvalidPreviousMessage carrying them.                           *)
(***************************************************************************)
C5_Original ==
    (PreviousGiven /\ ~PreviousDecodes) =>
        outcome = [tag |-> "Err", error |-> "InvalidPreviousMessage",
                   message |-> Some(PreviousBytes)]

(***************************************************************************)
(* C5, amended.  Whenever both key byte strings are accepted and the       *)
(* previous bytes do not parse, publish returns InvalidPreviousMessage     *)
(* carrying them; it does not panic and returns no entry.                  *)
(***************************************************************************)
C5_MalformedPrevious ==
    (KeysAccepted /\ PreviousGiven /\ ~PreviousDecodes) =>
        outcome = [tag |-> "Err", error |-> "InvalidPreviousMessage",
                   message |-> Some(PreviousBytes)]

C5_Witness ==
    /\ KeysAccepted
    /\ PreviousGiven
    /\ ~PreviousDecodes
    /\ Len(PreviousBytes) = 6
    /\ IsError("InvalidPreviousMessage")

(***************************************************************************)
(* C6.  Unrepresentable timestamp: a call that gets as far as the          *)
(* timestamp with one that is NaN or infinite fails with the error value   *)
(* LegacyJsonEncodeFailed.                                                 *)
(***************************************************************************)
C6_TimestampError ==
    (/\ KeysAccepted
     /\ PreviousGiven => (PreviousDecodes /\ Previous.author = CallerKey
                          /\ Previous.sequence # U64_MAX)
     /\ call.timestamp.class # "finite") =>
        IsError("LegacyJsonEncodeFailed")

(***************************************************************************)
(* C7.  Identifier integrity: the identifier publish returns is the one    *)
(* recomputed from the returned bytes by transcoding and digesting, and    *)
(* not the one of the bytes that were signed.                              *)
(***************************************************************************)
C7_IdentifierIntegrity ==
    Succeeded =>
        /\ outcome.key = IdentifierOf(outcome.bytes)
        /\ outcome.key # IdentifierOf(SignableOf(outcome.bytes))

C7_Witness == Succeeded /\ PreviousGiven /\ calls = 2

(***************************************************************************)
(* C8.  Sequence range: every returned entry has sequence >= 1, a publish  *)
(* onto a previous entry returns its sequence plus one as integers, and no *)
(* decodable previous sequence makes the addition panic.                   *)
(***************************************************************************)
C8_SequenceRange ==
    /\ Succeeded => /\ Produced.sequence # <<0, 0, 0, 0>>
                    /\ PreviousGiven => IsSuccessor(Previous.sequence, Produced.sequence)
    /\ outcome # [tag |-> "Panic", line |-> 139]

(***************************************************************************)
(* C9.  Fail-fast: every call that returns no entry returns an error       *)
(* value; a malformed public key yields InvalidPublicKey and, the public   *)
(* key being accepted, a malformed secret key yields InvalidSecretKey,     *)
(* before the previous entry is decoded and before anything is encoded or  *)
(* signed.                                                                 *)
(***************************************************************************)
C9_FailFast ==
    Called =>
        /\ ~Succeeded => outcome.tag = "Err"
        /\ ~PublicKey_from_bytes_ok(call.public_key_bytes) =>
              /\ IsError("InvalidPublicKey")
              /\ steps = <<"PublicKey::from_bytes">>
        /\ (/\ PublicKey_from_bytes_ok(call.public_key_bytes)
            /\ ~SecretKey_from_bytes_ok(call.secret_key_bytes)) =>
              /\ IsError("InvalidSecretKey")
              /\ steps = <<"PublicKey::from_bytes", "SecretKey::from_bytes">>

(***************************************************************************)
(* C10.  Legacy byte transcoder: the output has one byte per UTF-16 code   *)
(* unit of the string, in order, each the code unit mod 256; a string of   *)
(* code points below 256 comes out as it is.                               *)
(***************************************************************************)
RECURSIVE Utf16Length(_)
Utf16Length(s) ==
    IF s = <<>> THEN 0 ELSE (IF Head(s) >= 65536 THEN 2 ELSE 1) + Utf16Length(Tail(s))

C10_Transcoder ==
    hashable # None =>
        LET out == hashable[1] IN
        /\ Len(out) = Utf16Length(text)
        /\ \A i \in 1..Len(out) : out[i] = encode_utf16(text)[i] % 256
        /\ (\A i \in 1..Len(text) : text[i] < 256) => out = text
        /\ \A i \in 1..Len(text) :
              (\A j \in 1..i : text[j] < 65536) => out[i] = text[i] % 256

C10_Witness ==
    /\ hashable # None
    /\ Len(text) = 3
    /\ text[1] = 9786 /\ text[2] = 128512 /\ text[3] = 233
    /\ hashable[1] = <<58, 61, 0, 233>>
====
